---------------------------- MODULE Spec2Model ----------------------------
(***************************************************************************)
(* Model of the configuration envelope of the Amethyst lighting controller *)
(* (src/src/config.py): the binary codec of EnvelopeConfig (toFlash /      *)
(* fromFlash and their _savable_* / _read_* helpers) and the three-file    *)
(* rotation toFlash performs on the flash file system; and of three        *)
(* peripherals: the power scan of LedControl (src/src/leds.py), the        *)
(* channel selection of the ADS1115 (src/src/peripherals/ads1115.py) and   *)
(* the on-board LED (src/src/peripherals/picoled.py).                      *)
(*                                                                         *)
(* Values.  A bytes/bytearray object is a sequence of integers 0..255.  A  *)
(* str is the sequence of its Unicode code points, so len() counts         *)
(* characters and encode()/decode() do real UTF-8 work.  An array is a     *)
(* record [typecode, items].  sys.byteorder is "little" on the RP2040.     *)
(***************************************************************************)
EXTENDS Integers, Sequences, FiniteSets, TLC

VARIABLES
    store,       \* the live EnvelopeConfig instance: its attributes
    files,       \* the flash file system: path |-> NoFile or File(bytes)
    pc,          \* where toFlash stands: idle, writing, closed, rotated, kept
    wpos,        \* toFlash: number of cfg_file.write calls already done
    last,        \* the step taken last
    saved,       \* how the last toFlash stands or ended
    canonBefore, \* the canonical file as it was when the last toFlash began
    backupBefore,\* the backup file as it was when the last toFlash began
    orig,        \* the store as it was when the last toFlash began
    loaded,      \* the last fromFlash: the fault injected and the exception
    before,      \* the store as it was when the last fromFlash began
    damage,      \* what happened to the canonical file since it was written
    budget,      \* calls still allowed: [sets, saves, losses]
    prev,        \* how the toFlash before the last one ended (its st)
    leds,        \* the LedControl instance, the bus and its last power scan
    ads,         \* the _ADS1115Device instance, the chip and its last call
    picoled      \* the PicoLed instance: its pin, its timer and its last call

\* The peripherals, which the configuration steps leave alone.
devices == <<leds, ads, picoled>>

\* The configuration, which the peripheral steps leave alone.
config == <<store, files, pc, wpos, saved, canonBefore, backupBefore, orig,
            loaded, before, damage, budget, prev>>

vars == <<store, files, pc, wpos, last, saved, canonBefore, backupBefore, orig,
          loaded, before, damage, budget, prev, leds, ads, picoled>>

---------------------------------------------------------------------------
(* Program constants                                                       *)

STR_ENCODING == "utf-8"
CONFIG_HEADER == <<146, 0, 0>>
CONFIG_FOOTER == <<0, 0, 66>>
ENVELOPE_CONFIG_VER == 2

\* A path of the file system holds no file, or a file with its bytes.
NoFile == [exists |-> FALSE, data |-> <<>>]
File(data) == [exists |-> TRUE, data |-> data]
\* self.config_file and its two siblings, under CONFIG_ROOT.
config_file == "/lighting/firmware.cfg"
config_file_new == "/lighting/firmware.cfg.new"
config_file_old == "/lighting/firmware.cfg.old"
Paths == {config_file, config_file_new, config_file_old}

---------------------------------------------------------------------------
(* Integers and bytes                                                      *)

Min(a, b) == IF a <= b THEN a ELSE b

RECURSIVE Pow(_, _)
Pow(b, e) == IF e = 0 THEN 1 ELSE b * Pow(b, e - 1)

\* int.to_bytes(n, "little") of a small value (a length, a count, the
\* version); MicroPython keeps the low n bytes of one that does not fit.
to_bytes(v, n) == [i \in 1..n |-> (v \div Pow(256, i - 1)) % 256]

\* int.from_bytes(b, "little") of at most two bytes; 0 for the empty bytes
\* object, which is what a read at the end of the file returns.
RECURSIVE from_bytes(_)
from_bytes(b) == IF b = <<>> THEN 0 ELSE b[1] + (256 * from_bytes(Tail(b)))

\* A 32-bit unsigned quantity is the pair <<high 16 bits, low 16 bits>>:
\* the values of interest reach 2^32 - 1.
U32(hi, lo) == <<hi, lo>>
U(n) == U32(n \div 65536, n % 65536)
IsU32(v) == v \in (0..65535) \X (0..65535)

\* int.to_bytes(4, "little") and struct.pack("L", v) of a 32-bit quantity.
to_bytes4(v) == <<v[2] % 256, v[2] \div 256, v[1] % 256, v[1] \div 256>>

\* int.from_bytes(b, "little") of the at most four bytes a read(4) returns.
from_bytes4(b) ==
    LET p == [i \in 1..4 |-> IF i <= Len(b) THEN b[i] ELSE 0]
    IN  U32(p[3] + (256 * p[4]), p[1] + (256 * p[2]))

RECURSIVE Concat(_)
Concat(ss) == IF ss = <<>> THEN <<>> ELSE ss[1] \o Concat(Tail(ss))

\* One bit of a byte flipped (bit 0 is the least significant).
FlipBit(byte, bit) ==
    IF (byte \div Pow(2, bit)) % 2 = 1 THEN byte - Pow(2, bit) ELSE byte + Pow(2, bit)

---------------------------------------------------------------------------
(* UTF-8: str.encode(STR_ENCODING) and bytes.decode(STR_ENCODING)          *)

Utf8Char(c) ==
    IF c < 128 THEN <<c>>
    ELSE IF c < 2048 THEN <<192 + (c \div 64), 128 + (c % 64)>>
    ELSE IF c < 65536
         THEN <<224 + (c \div 4096), 128 + ((c \div 64) % 64), 128 + (c % 64)>>
    ELSE <<240 + (c \div 262144), 128 + ((c \div 4096) % 64),
           128 + ((c \div 64) % 64), 128 + (c % 64)>>

encode(s) == Concat([i \in 1..Len(s) |-> Utf8Char(s[i])])

UnicodeError == "UnicodeError"

IsCont(b) == b >= 128 /\ b < 192

\* Number of continuation bytes a lead byte announces; -1 for a byte that
\* cannot start a character.
Utf8Need(b) ==
    IF b < 128 THEN 0
    ELSE IF b < 192 THEN -1
    ELSE IF b < 224 THEN 1
    ELSE IF b < 240 THEN 2
    ELSE IF b < 248 THEN 3
    ELSE -1

Utf8Lead(b, need) ==
    IF need = 0 THEN b ELSE IF need = 1 THEN b - 192
    ELSE IF need = 2 THEN b - 224 ELSE b - 240

RECURSIVE Utf8Tail(_, _, _, _)
Utf8Tail(b, i, need, acc) ==
    IF need = 0 THEN acc ELSE Utf8Tail(b, i + 1, need - 1, (acc * 64) + (b[i] - 128))

\* The offsets at which a character of b starts: the bytes that are not
\* continuation bytes.
Utf8Starts(b) == {i \in 1..Len(b) : ~IsCont(b[i])}

\* b is well formed: it starts with a lead byte, and every lead byte is
\* followed by exactly the continuation bytes it announces.
Utf8Ok(b) ==
    /\ b # <<>> => ~IsCont(b[1])
    /\ \A i \in Utf8Starts(b) :
        LET need == Utf8Need(b[i]) IN
        /\ need >= 0
        /\ i + need <= Len(b)
        /\ \A j \in (i + 1)..(i + need) : IsCont(b[j])
        /\ i + need < Len(b) => ~IsCont(b[i + need + 1])

\* bytes.decode(STR_ENCODING) of a well-formed b: its code points.  On any
\* other b the call raises UnicodeError, which the callers test with Utf8Ok.
decode(b) ==
    IF ~Utf8Ok(b) THEN <<>>
    ELSE IF \A i \in 1..Len(b) : b[i] < 128 THEN b    \* ASCII: one byte each
    ELSE LET starts == Utf8Starts(b)
             at == [k \in 1..Cardinality(starts) |->
                       CHOOSE i \in starts : Cardinality({j \in starts : j <= i}) = k]
         IN  [k \in 1..Cardinality(starts) |->
                 Utf8Tail(b, at[k] + 1, Utf8Need(b[at[k]]),
                          Utf8Lead(b[at[k]], Utf8Need(b[at[k]])))]

---------------------------------------------------------------------------
(* The store                                                               *)

TypeL == 76     \* ord("L")

\* "Amethyst"
DefaultName == <<65, 109, 101, 116, 104, 121, 115, 116>>
\* ["FAN 1", "FAN 2", "FAN 3", "FAN 4", "Pump", "Spare"]
DefaultPwmNames ==
    << <<70, 65, 78, 32, 49>>, <<70, 65, 78, 32, 50>>, <<70, 65, 78, 32, 51>>,
       <<70, 65, 78, 32, 52>>, <<80, 117, 109, 112>>, <<83, 112, 97, 114, 101>> >>

\* EnvelopeConfig.__init__: the reference profile.
Defaults ==
    [ name          |-> DefaultName,
      cfg_version   |-> 0,
      freq          |-> U(133000000),
      pwmMap        |-> <<0, 2, 4, 6, 8, 10>>,
      tachMap       |-> <<1, 3, 5, 7, 9, 11>>,
      pwmNames      |-> DefaultPwmNames,
      pwmDutyCycles |-> <<100, 100, 100, 100, 100, 100>>,
      i2cSettings   |-> [typecode |-> TypeL, items |-> <<U(1), U(27), U(26), U(400000)>>],
      inaSettings   |-> <<64>>,
      adsSettings   |-> <<72>> ]

\* The attributes an envelope carries (cfg_version is not one of them).
Fields == {"name", "freq", "pwmMap", "tachMap", "pwmNames", "pwmDutyCycles",
           "i2cSettings", "inaSettings", "adsSettings"}

SameFields(a, b) == \A f \in Fields : a[f] = b[f]

---------------------------------------------------------------------------
(* Encoding: the _savable_* helpers and the writes of toFlash              *)

_savable_bytearray(data) == to_bytes(Len(data), 1) \o data

_savable_str(data) == <<Len(data) % 256>> \o encode(data)

_savable_str_list(data) ==
    <<Len(data) % 256>>
        \o Concat([i \in 1..Len(data) |-> <<Len(data[i]) % 256>> \o encode(data[i])])

\* struct.pack("L", element) with an 8-byte native long.
_savable_array_Wide(data) ==
    to_bytes(Len(data.items), 2) \o encode(<<TypeL>>)
        \o Concat([i \in 1..Len(data.items) |->
                      to_bytes4(data.items[i]) \o <<0, 0, 0, 0>>])

\* The tag written is "l", the signed typecode.
_savable_array_SignedTag(data) ==
    to_bytes(Len(data.items), 2) \o encode(<<108>>)
        \o Concat([i \in 1..Len(data.items) |-> to_bytes4(data.items[i])])

\* struct.pack("L", element): 4 bytes, native (little-endian) order.
_savable_array(data) ==
    to_bytes(Len(data.items), 2) \o encode(<<TypeL>>)
        \o Concat([i \in 1..Len(data.items) |-> to_bytes4(data.items[i])])

\* The writes of toFlash with tachMap written before pwmMap.
Chunks_Swapped(self) ==
    << CONFIG_HEADER,
       to_bytes(ENVELOPE_CONFIG_VER, 1),
       to_bytes4(self.freq),
       _savable_str(self.name),
       _savable_bytearray(self.tachMap),
       _savable_bytearray(self.pwmMap),
       _savable_bytearray(self.pwmDutyCycles),
       _savable_str_list(self.pwmNames),
       _savable_bytearray(self.inaSettings),
       _savable_array(self.i2cSettings),
       _savable_bytearray(self.adsSettings),
       CONFIG_FOOTER >>

\* The arguments of the twelve cfg_file.write calls of toFlash, in order.
Chunks(self) ==
    << CONFIG_HEADER,
       to_bytes(ENVELOPE_CONFIG_VER, 1),
       to_bytes4(self.freq),
       _savable_str(self.name),
       _savable_bytearray(self.pwmMap),
       _savable_bytearray(self.tachMap),
       _savable_bytearray(self.pwmDutyCycles),
       _savable_str_list(self.pwmNames),
       _savable_bytearray(self.inaSettings),
       _savable_array(self.i2cSettings),
       _savable_bytearray(self.adsSettings),
       CONFIG_FOOTER >>

NumChunks == Len(Chunks(Defaults))

\* Everything toFlash writes to the .new file.
Envelope(self) == Concat(Chunks(self))

---------------------------------------------------------------------------
(* Decoding: an open file, the _read_* helpers and fromFlash               *)

\* A fault of the medium: none, open() raises OSError, or every read that
\* would return the byte at offset `at` raises OSError.
NoFault == [kind |-> "none", at |-> 0]
OpenFault == [kind |-> "open", at |-> 0]
ReadFault(k) == [kind |-> "read", at |-> k]

\* A result of a read helper: the value, the file (its position moved) and
\* the exception raised ("none" when it returned).
Ret(val, f, err) == [val |-> val, f |-> f, err |-> err]

\* file.read(n): at most n bytes, fewer (or none) at the end of the file.
read(f, n) ==
    LET end == Min(f.pos + n, Len(f.data)) IN
    IF f.fault.kind = "read" /\ f.fault.at >= f.pos /\ f.fault.at < end
    THEN Ret(<<>>, f, "OSError")
    ELSE Ret(SubSeq(f.data, f.pos + 1, end), [f EXCEPT !.pos = end], "none")

_read_bytearray(file) ==
    LET size == read(file, 1) IN
    IF size.err # "none" THEN size
    ELSE read(size.f, from_bytes(size.val))

_read_str(file) ==
    LET str_len == read(file, 1) IN
    IF str_len.err # "none" THEN str_len
    ELSE LET raw == read(str_len.f, from_bytes(str_len.val)) IN
         IF raw.err # "none" THEN raw
         ELSE IF ~Utf8Ok(raw.val) THEN Ret(<<>>, raw.f, UnicodeError)
         ELSE Ret(decode(raw.val), raw.f, "none")

\* list(elements): the generator reads one length-prefixed string per
\* element, in order.
RECURSIVE ReadElements(_, _, _)
ReadElements(file, todo, acc) ==
    IF todo = 0 THEN Ret(acc, file, "none")
    ELSE IF file.pos = Len(file.data)
         \* at the end of the file every read returns b"": empty strings
         THEN Ret(acc \o [i \in 1..todo |-> <<>>], file, "none")
    ELSE LET element == _read_str(file) IN
         IF element.err # "none" THEN element
         ELSE ReadElements(element.f, todo - 1, Append(acc, element.val))

_read_str_list(file) ==
    LET num_elements == read(file, 1) IN
    IF num_elements.err # "none" THEN num_elements
    ELSE ReadElements(num_elements.f, from_bytes(num_elements.val), <<>>)

\* The typecodes array() accepts: b B h H i I l L q Q f d.
TypeCodes == {98, 66, 104, 72, 105, 73, 108, 76, 113, 81, 102, 100}

\* What an array of the given typecode keeps of an appended 32-bit value:
\* the item's storage, cut to the width of the typecode.
Stored(typecode, v) ==
    IF typecode \in {98, 66} THEN U32(0, v[2] % 256)
    ELSE IF typecode \in {104, 72} THEN U32(0, v[2])
    ELSE v

_read_array(file) ==
    LET array_len == read(file, 2) IN
    IF array_len.err # "none" THEN array_len
    ELSE LET tag == read(array_len.f, 1) IN
         IF tag.err # "none" THEN tag
         ELSE IF ~Utf8Ok(tag.val) THEN Ret(<<>>, tag.f, UnicodeError)
         ELSE IF tag.val = <<>> \/ tag.val[1] \notin TypeCodes
              THEN Ret(<<>>, tag.f, "ValueError")
         ELSE LET n == from_bytes(array_len.val)
                  p == tag.f.pos
                  items == read(tag.f, 4 * n)
              IN  IF items.err # "none" THEN items
                  ELSE Ret([typecode |-> tag.val[1],
                            items |-> [i \in 1..n |->
                                Stored(tag.val[1],
                                       from_bytes4(read([tag.f EXCEPT !.pos =
                                           Min(p + (4 * (i - 1)), Len(tag.f.data))], 4).val))]],
                           items.f, "none")

\* The attribute assignments of fromFlash after the header, in order.
FieldOrder == <<"freq", "name", "pwmMap", "tachMap", "pwmDutyCycles", "pwmNames",
                "inaSettings", "i2cSettings", "adsSettings">>

ReadField(field, file) ==
    IF field = "freq"
    THEN LET raw == read(file, 4) IN
         IF raw.err # "none" THEN raw ELSE Ret(from_bytes4(raw.val), raw.f, "none")
    ELSE IF field = "name" THEN _read_str(file)
    ELSE IF field = "pwmNames" THEN _read_str_list(file)
    ELSE IF field = "i2cSettings" THEN _read_array(file)
    ELSE _read_bytearray(file)

\* A result of fromFlash's body: the instance as the body left it and the
\* exception that ended it ("none": it ran to its end).
Out(self, err) == [self |-> self, err |-> err]

\* The footer read and check that end the with block.
ReadFooter(self, file) ==
    LET footer == read(file, 3) IN
    IF footer.err # "none" THEN Out(self, footer.err)
    ELSE IF footer.val = CONFIG_FOOTER THEN Out(self, "none")
    ELSE IF ~Utf8Ok(footer.val) THEN Out(self, UnicodeError)
    ELSE Out(self, "BadFooter")

\* Each field is assigned to the instance as soon as it is read.
RECURSIVE ReadFields(_, _, _)
ReadFields(self, file, k) ==
    IF k > Len(FieldOrder) THEN ReadFooter(self, file)
    ELSE LET r == ReadField(FieldOrder[k], file) IN
         IF r.err # "none" THEN Out(self, r.err)
         ELSE ReadFields([self EXCEPT ![FieldOrder[k]] = r.val], r.f, k + 1)

\* The header and version checks that begin the with block.
ReadHeader(self, file) ==
    LET header == read(file, 4) IN
    IF header.err # "none" THEN Out(self, header.err)
    ELSE IF SubSeq(header.val, 1, Min(2, Len(header.val))) # SubSeq(CONFIG_HEADER, 1, 2)
         THEN IF Len(header.val) < 3 THEN Out(self, "IndexError")
              ELSE Out(self, "BadHeader")
    ELSE IF Len(header.val) < 4 THEN Out(self, "IndexError")
    ELSE LET versioned == [self EXCEPT !.cfg_version = header.val[4]] IN
         IF versioned.cfg_version # ENVELOPE_CONFIG_VER
         THEN Out(versioned, "VersionMismatch")
         ELSE ReadFields(versioned, header.f, 1)

\* A missing file puts the reference profile back in force.
fromFlash_ResetOnMissing(self, content, fault) ==
    IF ~content.exists THEN Out(Defaults, "OSError")
    ELSE IF fault.kind = "open" THEN Out(self, "OSError")
    ELSE ReadHeader(self, [data |-> content.data, pos |-> 0, fault |-> fault])

\* fromFlash on the content of the canonical path (NoFile: no such file).
\* err names the exception of the body; OSError is the one the except
\* clause swallows.
fromFlash(self, content, fault) ==
    IF ~content.exists \/ fault.kind = "open" THEN Out(self, "OSError")
    ELSE ReadHeader(self, [data |-> content.data, pos |-> 0, fault |-> fault])

\* except Exception: pass in place of except OSError: pass.
Raises_CatchAll(err) == FALSE

\* Whether fromFlash raises to its caller: except OSError: pass swallows
\* OSError and nothing else.
Raises(err) == err \notin {"none", "OSError"}

---------------------------------------------------------------------------
(* LedControl: the power scan (src/src/leds.py)                            *)

POWER_TRIGGER_VOLTAGE == 3

\* The bus voltages the current monitor reports, in tenths of a volt.
Voltages == {0, 29, 30, 31, 120}

\* What a scan saw and did: the voltage read, _main_power as the scan
\* found it, and whether the scan ran _initAllPins(init_to_on=True).
Scanned(v, was, init) == [v |-> v, was |-> was, init |-> init]

\* The scan re-initialises the pins whenever it finds the power on.
_CBK_scanForPower_Always(self, v) ==
    IF v >= POWER_TRIGGER_VOLTAGE * 10
    THEN [self EXCEPT !._main_power = TRUE,
                      !.scan = Scanned(v, self._main_power,
                                       self._main_power_restore_state)]
    ELSE [self EXCEPT !._main_power = FALSE,
                      !.scan = Scanned(v, self._main_power, FALSE)]

\* LedControl._CBK_scanForPower, readChannelBusVoltage(0) returning v.
_CBK_scanForPower(self, v) ==
    IF v >= POWER_TRIGGER_VOLTAGE * 10
    THEN IF ~self._main_power
         THEN [self EXCEPT !._main_power = TRUE,
                           !.scan = Scanned(v, self._main_power,
                                            self._main_power_restore_state)]
         ELSE [self EXCEPT !.scan = Scanned(v, self._main_power, FALSE)]
    ELSE IF self._main_power
         THEN [self EXCEPT !._main_power = FALSE,
                           !.scan = Scanned(v, self._main_power, FALSE)]
         ELSE [self EXCEPT !.scan = Scanned(v, self._main_power, FALSE)]

\* LedControl.__init__: _main_power starts False and the constructor runs
\* the first scan itself.
LedControlInit(restore_state_on_main_power, v) ==
    _CBK_scanForPower([_main_power |-> FALSE,
                       _main_power_restore_state |-> restore_state_on_main_power,
                       scan |-> Scanned(0, FALSE, FALSE)], v)

---------------------------------------------------------------------------
(* _ADS1115Device: the channel selection (src/src/peripherals/ads1115.py)  *)

\* (CFG_MUX_AIN0_GND, CFG_MUX_AIN1_GND, CFG_MUX_AIN2_GND, CFG_MUX_AIN3_GND)
CHAN_MAP == <<16384, 20480, 24576, 28672>>

\* byte & 0x70 and byte & 0x8F.
Mux(byte) == ((byte \div 16) % 8) * 16
ClearMux(byte) == byte - Mux(byte)

\* What the last setActiveChannel did: the channel asked for, config[0] as
\* the call found it, whether it called writeConfig and whether that
\* raised ADSConfigError.
NoCall == [chan |-> -1, was |-> 0, wrote |-> FALSE, raised |-> FALSE]

\* _ADS1115Device.__init__ with writeCfg False: readConfiguration fills
\* self.config from the chip.
ADSInit(chip) == [config |-> chip, chip |-> chip, call |-> NoCall]

\* _ADS1115Device.setActiveChannel(chan_num); echo: whether the chip reads
\* back the configuration writeConfig wrote.  The mux field of config[0]
\* is cleared before the or, so the or is a sum.
setActiveChannel(self, chan_num, echo) ==
    IF Mux(self.config[1]) # CHAN_MAP[chan_num + 1]
    THEN LET cfg == <<ClearMux(self.config[1]) + (CHAN_MAP[chan_num + 1] \div 256),
                      self.config[2]>>
         IN  [config |-> cfg, chip |-> cfg,
              call |-> [chan |-> chan_num, was |-> self.config[1],
                        wrote |-> TRUE, raised |-> ~echo]]
    ELSE [self EXCEPT !.call = [chan |-> chan_num, was |-> self.config[1],
                                wrote |-> FALSE, raised |-> FALSE]]

---------------------------------------------------------------------------
(* PicoLed: the on-board LED (src/src/peripherals/picoled.py)              *)

TimerOff == [active |-> FALSE, period |-> 0]

\* PicoLed.__init__: Pin(25, mode=Pin.OUT, value=on_by_default).
PicoLedInit(on_by_default) ==
    [value |-> IF on_by_default THEN 1 ELSE 0, timer |-> TimerOff, call |-> "init"]

\* self._led.value(not self._led.value())
_INTHNDLR_boardLedCycle(self) == [self EXCEPT !.value = 1 - @]

\* self._blink_timer.deinit(); self._led.on()
on(self) == [self EXCEPT !.timer = TimerOff, !.value = 1, !.call = "on"]

\* self._blink_timer.deinit(); self._led.on()
off(self) == [self EXCEPT !.timer = TimerOff, !.value = 1, !.call = "off"]

\* self._blink_timer.init(period=period, callback=...)
blink(self, period) ==
    [self EXCEPT !.timer = [active |-> TRUE, period |-> period], !.call = "blink"]

---------------------------------------------------------------------------
(* Bounds and inputs                                                       *)

MaxStrLen == 1      \* longest generated name
MaxBytesLen == 1    \* longest generated byte field
MaxSets == 1        \* attribute assignments in a run of the rotation
MaxSaves == 3       \* toFlash calls in a run of the rotation
MaxLosses == 1      \* power losses in a run of the rotation
MaxLoads == 1       \* fromFlash calls in a run of the rotation

SeqsUpTo(S, n) == UNION {[1..k -> S] : k \in 0..n}

\* Characters of 1 and 2 UTF-8 bytes: "A" and e-acute.
StrAlphabet == {65, 233}
ByteAlphabet == {255}

\* A name of sixteen characters, four of them of 4 UTF-8 bytes (U+10000),
\* the other twelve control characters and the letters "L" and "B".
ShadowName == <<65536, 65536, 65536, 65536, 0, 0, 0, 0, 0, 0, 0, 76, 0, 0, 0, 66>>

\* Attribute values a caller may assign: <<attribute, value>>.
FieldInputs ==
    {<<"name", v>> : v \in SeqsUpTo(StrAlphabet, MaxStrLen) \cup {ShadowName}}
    \cup {<<"freq", v>> : v \in {U(0), U32(65535, 65535)}}
    \cup {<<f, v>> : f \in {"pwmMap", "tachMap", "pwmDutyCycles"},
                     v \in SeqsUpTo(ByteAlphabet, MaxBytesLen)}
    \cup {<<f, v>> : f \in {"inaSettings", "adsSettings"}, v \in {<<>>, <<0, 66>>}}
    \cup {<<"pwmNames", v>> : v \in {<<>>, << <<>> >>, << <<65>>, <<233>> >>}}
    \cup {<<"i2cSettings", [typecode |-> TypeL, items |-> v]>> :
            v \in {<<>>, <<U32(32768, 0)>>,
                   <<U(1), U(27), U32(65535, 65535), U32(40000, 1)>>}}

\* The stores whose envelopes the codec runs write: the reference profile
\* with at most one attribute assigned.
StoreInputs == {Defaults} \cup {[Defaults EXCEPT ![fv[1]] = fv[2]] : fv \in FieldInputs}

\* The assignments made in a run of the rotation.
SetInputs == {<<"name", <<233>>>>, <<"pwmDutyCycles", <<50, 50, 50, 50, 50, 50>>>>}

---------------------------------------------------------------------------
(* State                                                                   *)

NoDamage == [kind |-> "none", at |-> 0, bit |-> 0]
NeverSaved == [st |-> "never", at |-> "idle", wpos |-> 0]
NeverLoaded == [err |-> "never", fault |-> NoFault, raised |-> FALSE]

InitCommon ==
    /\ files = [p \in Paths |-> NoFile]
    /\ pc = "idle"
    /\ wpos = 0
    /\ last = "init"
    /\ saved = NeverSaved
    /\ canonBefore = NoFile
    /\ backupBefore = NoFile
    /\ orig = Defaults
    /\ loaded = NeverLoaded
    /\ before = Defaults
    /\ damage = NoDamage
    /\ prev = NeverSaved.st

\* The peripherals as main sets them up, the main power off.
DevicesDefault ==
    /\ leds = LedControlInit(TRUE, 0)
    /\ ads = ADSInit(<<133, 131>>)
    /\ picoled = PicoLedInit(FALSE)

\* First boot: EnvelopeConfig() on an empty CONFIG_ROOT.
Init ==
    /\ InitCommon
    /\ DevicesDefault
    /\ store = Defaults
    /\ budget = [sets |-> MaxSets, saves |-> MaxSaves, losses |-> MaxLosses,
                 loads |-> MaxLoads]

\* A codec run: a store a caller has set up, about to be saved once.
InitCodec ==
    /\ InitCommon
    /\ DevicesDefault
    /\ store \in StoreInputs
    /\ budget = [sets |-> 0, saves |-> 1, losses |-> 1, loads |-> 1]

\* The peripherals after their constructors, whatever the bus voltage, the
\* chip's configuration register and the constructor arguments.
InitDevices ==
    /\ InitCommon
    /\ store = Defaults
    /\ budget = [sets |-> 0, saves |-> 0, losses |-> 0, loads |-> 0]
    /\ \E restore \in BOOLEAN, v \in Voltages : leds = LedControlInit(restore, v)
    /\ \E chip \in {<<133, 131>>, <<197, 131>>} : ads = ADSInit(chip)
    /\ \E on_by_default \in BOOLEAN : picoled = PicoLedInit(on_by_default)

---------------------------------------------------------------------------
(* Faulty variants of toFlash steps, used to show that the properties      *)
(* below tell a correct rotation from a broken one                         *)

\* The write call appends to the canonical file instead of the .new file.
SaveWrite_InPlace ==
    /\ pc = "writing"
    /\ wpos < NumChunks
    /\ files' = [files EXCEPT ![config_file] =
                     File(@.data \o Chunks(store)[wpos + 1])]
    /\ wpos' = wpos + 1
    /\ last' = "write"
    /\ UNCHANGED <<store, pc, saved, canonBefore, backupBefore, prev, devices, orig, loaded, before,
                   damage, budget>>

\* The canonical file is removed instead of being renamed to the backup.
SaveRenameOld_Remove ==
    /\ pc = "closed"
    /\ files' = [files EXCEPT ![config_file] = NoFile]
    /\ pc' = IF files[config_file] = NoFile THEN "kept" ELSE "rotated"
    /\ last' = "rename_old"
    /\ UNCHANGED <<store, wpos, saved, canonBefore, backupBefore, prev, devices, orig, loaded, before,
                   damage, budget>>

\* The canonical file is copied to the backup and truncated for rewriting
\* instead of being renamed away.
SaveRenameOld_CopyTruncate ==
    /\ pc = "closed"
    /\ files' = IF files[config_file] = NoFile THEN files
                ELSE [files EXCEPT ![config_file_old] = files[config_file],
                                   ![config_file] = File(<<>>)]
    /\ pc' = IF files[config_file] = NoFile THEN "kept" ELSE "rotated"
    /\ last' = "rename_old"
    /\ UNCHANGED <<store, wpos, saved, canonBefore, backupBefore, prev, devices, orig, loaded, before,
                   damage, budget>>

\* The OSError of a failed write is swallowed and toFlash goes on to the
\* renames with the partial .new file.
SaveWriteFail_Swallowed ==
    /\ pc = "writing"
    /\ wpos < NumChunks
    /\ pc' = "closed"
    /\ saved' = [st |-> "raised", at |-> "writing", wpos |-> wpos]
    /\ last' = "writefail"
    /\ UNCHANGED <<store, files, wpos, canonBefore, backupBefore, prev, devices, orig, loaded, before,
                   damage, budget>>

\* The .new file is opened for appending: what an earlier save left in it
\* stays.
SaveOpen_Append ==
    /\ pc = "idle"
    /\ budget.saves > 0
    /\ files' = [files EXCEPT ![config_file_new] = File(@.data)]
    /\ pc' = "writing"
    /\ wpos' = 0
    /\ saved' = [st |-> "running", at |-> "writing", wpos |-> 0]
    /\ canonBefore' = files[config_file]
    /\ backupBefore' = files[config_file_old]
    /\ orig' = store
    /\ prev' = saved.st
    /\ budget' = [budget EXCEPT !.saves = @ - 1]
    /\ last' = "open"
    /\ UNCHANGED <<store, loaded, before, damage, devices>>

\* A failed second rename has already removed its destination.
SaveRenameNewFail_DestRemoved ==
    /\ pc \in {"rotated", "kept"}
    /\ files' = [files EXCEPT ![config_file] = NoFile]
    /\ pc' = "idle"
    /\ saved' = [st |-> "raised", at |-> pc, wpos |-> wpos]
    /\ last' = "rename_new_fail"
    /\ UNCHANGED <<store, wpos, canonBefore, backupBefore, prev, devices, orig, loaded, before,
                   damage, budget>>

\* fromFlash falls back to the backup when the canonical file is missing.
Load_FallsBackToBackup(fault) ==
    /\ pc = "idle"
    /\ budget.loads > 0
    /\ \E out \in {fromFlash(store,
                             IF files[config_file].exists THEN files[config_file]
                             ELSE files[config_file_old], fault)} :
        /\ store' = out.self
        /\ loaded' = [err |-> out.err, fault |-> fault, raised |-> Raises(out.err)]
    /\ before' = store
    /\ budget' = [budget EXCEPT !.loads = @ - 1]
    /\ last' = "load"
    /\ UNCHANGED <<files, pc, wpos, saved, canonBefore, backupBefore, prev, devices, orig, damage>>

---------------------------------------------------------------------------
(* Attribute assignment by a caller                                        *)

SetField(field, value) ==
    /\ pc = "idle"
    /\ budget.sets > 0
    /\ store[field] # value
    /\ store' = [store EXCEPT ![field] = value]
    /\ budget' = [budget EXCEPT !.sets = @ - 1]
    /\ last' = "set"
    /\ UNCHANGED <<files, pc, wpos, saved, canonBefore, backupBefore, prev, devices, orig, loaded, before, damage>>

---------------------------------------------------------------------------
(* toFlash, statement by statement                                         *)

\* open(f"{self.config_file}.new", "wb"): the file is created or truncated.
SaveOpen ==
    /\ pc = "idle"
    /\ budget.saves > 0
    /\ files' = [files EXCEPT ![config_file_new] = File(<<>>)]
    /\ pc' = "writing"
    /\ wpos' = 0
    /\ saved' = [st |-> "running", at |-> "writing", wpos |-> 0]
    /\ canonBefore' = files[config_file]
    /\ backupBefore' = files[config_file_old]
    /\ orig' = store
    /\ prev' = saved.st
    /\ budget' = [budget EXCEPT !.saves = @ - 1]
    /\ last' = "open"
    /\ UNCHANGED <<store, loaded, before, damage, devices>>

\* The next cfg_file.write call.
SaveWrite ==
    /\ pc = "writing"
    /\ wpos < NumChunks
    /\ files' = [files EXCEPT ![config_file_new].data = @ \o Chunks(store)[wpos + 1]]
    /\ wpos' = wpos + 1
    /\ last' = "write"
    /\ UNCHANGED <<store, pc, saved, canonBefore, backupBefore, prev, devices, orig, loaded, before, damage, budget>>

\* The next cfg_file.write call raises OSError (the medium is full): the
\* with block closes the file and the exception leaves toFlash.
SaveWriteFail ==
    /\ pc = "writing"
    /\ wpos < NumChunks
    /\ pc' = "idle"
    /\ saved' = [st |-> "raised", at |-> "writing", wpos |-> wpos]
    /\ last' = "writefail"
    /\ UNCHANGED <<store, files, wpos, canonBefore, backupBefore, prev, devices, orig, loaded, before, damage, budget>>

\* The end of the with block: the file is closed.
SaveClose ==
    /\ pc = "writing"
    /\ wpos = NumChunks
    /\ pc' = "closed"
    /\ last' = "close"
    /\ UNCHANGED <<store, files, wpos, saved, canonBefore, backupBefore, prev, devices, orig, loaded, before, damage,
                   budget>>

\* os.rename(self.config_file, f"{self.config_file}.old"); the OSError of
\* a missing canonical file is swallowed.
SaveRenameOld ==
    /\ pc = "closed"
    /\ files' = IF files[config_file] = NoFile THEN files
                ELSE [files EXCEPT ![config_file_old] = files[config_file],
                                   ![config_file] = NoFile]
    /\ pc' = IF files[config_file] = NoFile THEN "kept" ELSE "rotated"
    /\ last' = "rename_old"
    /\ UNCHANGED <<store, wpos, saved, canonBefore, backupBefore, prev, devices, orig, loaded, before, damage, budget>>

\* The same rename raises OSError although the canonical file exists (a
\* fault of the medium): the except clause swallows that too.
SaveRenameOldFault ==
    /\ pc = "closed"
    /\ files[config_file] # NoFile
    /\ pc' = "kept"
    /\ last' = "rename_old_fault"
    /\ UNCHANGED <<store, files, wpos, saved, canonBefore, backupBefore, prev, devices, orig, loaded, before, damage,
                   budget>>

\* os.rename(f"{self.config_file}.new", self.config_file), then collect().
SaveRenameNew ==
    /\ pc \in {"rotated", "kept"}
    /\ files' = [files EXCEPT ![config_file] = files[config_file_new],
                              ![config_file_new] = NoFile]
    /\ pc' = "idle"
    /\ saved' = [st |-> "returned", at |-> pc, wpos |-> wpos]
    /\ last' = "rename_new"
    /\ UNCHANGED <<store, wpos, canonBefore, backupBefore, prev, devices, orig, loaded, before, damage, budget>>

\* The second rename raises OSError, which leaves toFlash.
SaveRenameNewFail ==
    /\ pc \in {"rotated", "kept"}
    /\ pc' = "idle"
    /\ saved' = [st |-> "raised", at |-> pc, wpos |-> wpos]
    /\ last' = "rename_new_fail"
    /\ UNCHANGED <<store, files, wpos, canonBefore, backupBefore, prev, devices, orig, loaded, before, damage, budget>>

\* Power is lost and the device boots again: the files stay as they are,
\* main constructs a new EnvelopeConfig.
PowerLoss ==
    /\ budget.losses > 0
    /\ store' = Defaults
    /\ pc' = "idle"
    /\ saved' = IF pc = "idle" THEN saved
                ELSE [st |-> "interrupted", at |-> pc, wpos |-> wpos]
    /\ budget' = [budget EXCEPT !.losses = @ - 1]
    /\ last' = "powerloss"
    /\ UNCHANGED <<files, wpos, canonBefore, backupBefore, prev, devices, orig, loaded, before, damage>>

---------------------------------------------------------------------------
(* fromFlash as one step                                                   *)

Load(fault) ==
    /\ pc = "idle"
    /\ budget.loads > 0
    /\ \E out \in {fromFlash(store, files[config_file], fault)} :
        /\ store' = out.self
        /\ loaded' = [err |-> out.err, fault |-> fault, raised |-> Raises(out.err)]
    /\ before' = store
    /\ budget' = [budget EXCEPT !.loads = @ - 1]
    /\ last' = "load"
    /\ UNCHANGED <<files, pc, wpos, saved, canonBefore, backupBefore, prev, devices, orig, damage>>

---------------------------------------------------------------------------
(* Damage to the canonical file between a save and a load (codec runs)     *)

Damageable ==
    /\ pc = "idle"
    /\ saved.st = "returned"
    /\ files[config_file].exists
    /\ damage = NoDamage
    /\ budget.loads > 0
    /\ budget.losses = 0      \* after the restart

\* One bit of the byte at offset `at` flips.
DamageFlip(at, bit) ==
    /\ Damageable
    /\ at < Len(files[config_file].data)
    /\ files' = [files EXCEPT ![config_file].data[at + 1] = FlipBit(@, bit)]
    /\ damage' = [kind |-> "flip", at |-> at, bit |-> bit]
    /\ last' = "damage"
    /\ UNCHANGED <<store, pc, wpos, saved, canonBefore, backupBefore, prev, devices, orig, loaded, before, budget>>

\* The file is cut to its first `at` bytes.
DamageTruncate(at) ==
    /\ Damageable
    /\ at < Len(files[config_file].data)
    /\ files' = [files EXCEPT ![config_file].data = SubSeq(@, 1, at)]
    /\ damage' = [kind |-> "truncate", at |-> at, bit |-> 0]
    /\ last' = "damage"
    /\ UNCHANGED <<store, pc, wpos, saved, canonBefore, backupBefore, prev, devices, orig, loaded, before, budget>>

\* The file is removed.
DamageRemove ==
    /\ Damageable
    /\ files' = [files EXCEPT ![config_file] = NoFile]
    /\ damage' = [kind |-> "remove", at |-> 0, bit |-> 0]
    /\ last' = "damage"
    /\ UNCHANGED <<store, pc, wpos, saved, canonBefore, backupBefore, prev, devices, orig, loaded, before, budget>>

---------------------------------------------------------------------------
(* Specifications                                                          *)

\* The rotation: assignments, saves that may fail or be cut by a power
\* loss at any statement, and loads of what the saves left.
Next ==
    \/ \E fv \in SetInputs : SetField(fv[1], fv[2])
    \/ SaveOpen
    \/ SaveWrite
    \/ SaveWriteFail
    \/ SaveClose
    \/ SaveRenameOld
    \/ SaveRenameOldFault
    \/ SaveRenameNew
    \/ SaveRenameNewFail
    \/ PowerLoss
    \/ \E fault \in {NoFault, OpenFault} : Load(fault)

Spec == Init /\ [][Next]_vars

MaxOffset == 128    \* envelopes of the codec runs are shorter than this

\* The faults a codec run injects into its load: any on an undamaged file.
CodecFaults ==
    {NoFault} \cup
    IF damage = NoDamage /\ files[config_file].exists
    THEN {OpenFault} \cup {ReadFault(k) : k \in 0..(Len(files[config_file].data) - 1)}
    ELSE {}

\* The codec: one store saved without faults, the device possibly
\* restarted, the canonical file possibly damaged, then loaded once.
NextCodec ==
    \/ SaveOpen
    \/ SaveWrite
    \/ SaveClose
    \/ SaveRenameOld
    \/ SaveRenameNew
    \/ PowerLoss
    \/ \E at \in 0..MaxOffset, bit \in 0..7 : DamageFlip(at, bit)
    \/ \E at \in 0..MaxOffset : DamageTruncate(at)
    \/ DamageRemove
    \/ \E fault \in CodecFaults : Load(fault)

SpecCodec == InitCodec /\ [][NextCodec]_vars

\* The periods blink is called with, in milliseconds.
Periods == {250, 1000}

\* The 1000 ms timer of LedControl fires.
PowerScan ==
    /\ \E v \in Voltages : leds' = _CBK_scanForPower(leds, v)
    /\ last' = "scan"
    /\ UNCHANGED <<config, ads, picoled>>

ADSSetActiveChannel(chan_num, echo) ==
    /\ ads' = setActiveChannel(ads, chan_num, echo)
    /\ last' = "channel"
    /\ UNCHANGED <<config, leds, picoled>>

PicoOn ==
    /\ picoled' = on(picoled)
    /\ last' = "on"
    /\ UNCHANGED <<config, leds, ads>>

PicoOff ==
    /\ picoled' = off(picoled)
    /\ last' = "off"
    /\ UNCHANGED <<config, leds, ads>>

PicoBlink(period) ==
    /\ picoled' = blink(picoled, period)
    /\ last' = "blink"
    /\ UNCHANGED <<config, leds, ads>>

\* The blink timer fires.
PicoTick ==
    /\ picoled.timer.active
    /\ picoled' = _INTHNDLR_boardLedCycle(picoled)
    /\ last' = "tick"
    /\ UNCHANGED <<config, leds, ads>>

\* The peripherals: scans, channel selections and LED calls in any order.
NextDevices ==
    \/ PowerScan
    \/ \E chan_num \in 0..3, echo \in BOOLEAN : ADSSetActiveChannel(chan_num, echo)
    \/ PicoOn
    \/ PicoOff
    \/ \E period \in Periods : PicoBlink(period)
    \/ PicoTick

SpecDevices == InitDevices /\ [][NextDevices]_vars

---------------------------------------------------------------------------
(* Properties                                                              *)

canonical == files[config_file]
backup == files[config_file_old]
temp == files[config_file_new]

\* The stores a run of the rotation can save: the reference profile with
\* any consistent choice of the assignments of SetInputs applied.
ApplySets(picked) ==
    [f \in DOMAIN Defaults |->
        IF \E fv \in picked : fv[1] = f
        THEN (CHOOSE fv \in picked : fv[1] = f)[2]
        ELSE Defaults[f]]
RotationStores ==
    {ApplySets(picked) :
        picked \in {q \in SUBSET SetInputs : \A a, b \in q : a[1] = b[1] => a = b}}

\* The complete envelopes of the rotation, and whether a file holds one.
Envelopes == {Envelope(s) : s \in RotationStores}
IsEnvelope(file) == file.exists /\ file.data \in Envelopes

\* A load of the file exactly as an unfaulted save left it.
CleanLoad ==
    /\ last = "load"
    /\ saved.st = "returned"
    /\ damage = NoDamage
    /\ loaded.fault = NoFault

\* The saved store is one whose envelope decodes to itself.
RoundTrips(s) ==
    LET out == fromFlash(Defaults, File(Envelope(s)), NoFault) IN
    out.err = "none" /\ SameFields(out.self, s)

\* A load of a file that was damaged after an unfaulted save.
DamagedLoad(kind) ==
    /\ last = "load"
    /\ damage.kind = kind
    /\ loaded.fault = NoFault

\* C1: decoding the envelope a save wrote succeeds and yields a store
\* equal, field by field, to the store that was saved.
C1_RoundTrip ==
    CleanLoad => loaded.err = "none" /\ SameFields(store, orig)

\* C2 as stated: at every point of a save, a power loss after any step
\* included, the canonical file or the backup holds a complete envelope.
C2_AlwaysOneComplete ==
    saved.st \in {"running", "interrupted", "raised"}
        => IsEnvelope(canonical) \/ IsEnvelope(backup)

\* C2 amended: once the canonical file or the backup holds a complete
\* envelope, no step of a save, fault or power loss leaves both without one.
C2_OnceCompleteStaysComplete ==
    [][(IsEnvelope(canonical) \/ IsEnvelope(backup))
          => (IsEnvelope(canonical)' \/ IsEnvelope(backup)')]_vars

\* Between the two renames of a later save only the backup is complete.
C2_Witness ==
    /\ pc = "rotated"
    /\ ~canonical.exists
    /\ IsEnvelope(backup)
    /\ temp.exists

\* C3: in every reachable state the canonical file is absent or holds a
\* complete envelope, and the canonical path changes only through the two
\* renames of toFlash.
C3_CanonicalNeverPartial ==
    /\ [](~canonical.exists \/ canonical.data \in Envelopes)
    /\ [][canonical' # canonical => last' \in {"rename_old", "rename_new"}]_vars

\* A save is half way through its writes while a canonical file exists.
C3_Witness ==
    /\ pc = "writing"
    /\ 0 < wpos /\ wpos < NumChunks
    /\ temp.exists /\ temp.data \notin Envelopes
    /\ canonical.exists

\* A save was cut by a power loss after its last write and before the
\* .new file was renamed, and the canonical file existed when it began.
CutBeforeTempRenamed ==
    /\ saved.st = "interrupted"
    /\ \/ saved.at \in {"closed", "rotated", "kept"}
       \/ saved.at = "writing" /\ saved.wpos = NumChunks
    /\ canonBefore.exists

\* C4 as stated: such an interruption leaves the canonical file exactly
\* as it was before the save.
C4_CanonicalAsBefore ==
    CutBeforeTempRenamed => canonical = canonBefore

\* C4 amended: such an interruption leaves the canonical file exactly as
\* it was before the save unless the first rename had already moved it;
\* then the canonical path is absent and the backup is that file.
C4_CanonicalOrBackupAsBefore ==
    CutBeforeTempRenamed =>
        IF saved.at = "rotated"
        THEN ~canonical.exists /\ backup = canonBefore
        ELSE canonical = canonBefore

\* The power loss fell between the two renames.
C4_Witness ==
    /\ CutBeforeTempRenamed
    /\ saved.at = "rotated"
    /\ last = "powerloss"

\* C5: a load that fails a validation step leaves every field as it was
\* (checked on damaged copies of envelopes that decode well undamaged).
C5_FailedLoadKeepsFields ==
    (last = "load" /\ loaded.raised /\ RoundTrips(orig))
        => SameFields(store, before)

\* C6: a file whose version byte is not 2 is rejected with
\* VersionMismatch and no attribute of the store changes.
C6_VersionGate ==
    (/\ last = "load"
     /\ loaded.fault = NoFault
     /\ canonical.exists
     /\ Len(canonical.data) >= 4
     /\ SubSeq(canonical.data, 1, 2) = SubSeq(CONFIG_HEADER, 1, 2)
     /\ canonical.data[4] # ENVELOPE_CONFIG_VER)
        => loaded.err = "VersionMismatch" /\ store = before

C8_MagicCorruption ==
    (DamagedLoad("flip") /\ RoundTrips(orig)) =>
        /\ damage.at < 2 => loaded.err = "BadHeader"
        /\ damage.at >= Len(canonical.data) - 3 => loaded.err = "BadFooter"

\* C9: a valid envelope cut anywhere before its footer does not decode.
C9_TruncationFails ==
    (DamagedLoad("truncate") /\ damage.at <= Len(Envelope(orig)) - 3)
        => loaded.err # "none"

\* C10: when a write to the .new file fails, toFlash raises without
\* performing either rename: the canonical file and the backup are as
\* they were before the save and the .new file is still in place.
C10_WriteFailureKeepsCanonical ==
    (saved.st = "raised" /\ saved.at = "writing") =>
        /\ canonical = canonBefore
        /\ backup = backupBefore
        /\ temp.exists
        /\ pc = "idle"

\* A write failed part way through a save over an existing canonical file.
C10_Witness ==
    /\ saved.st = "raised"
    /\ saved.at = "writing"
    /\ saved.wpos > 0
    /\ canonBefore.exists
    /\ last = "writefail"

\* The second rename of a save over an existing canonical file failed.
FinalRenameFailed ==
    /\ saved.st = "raised"
    /\ saved.at \in {"rotated", "kept"}
    /\ canonBefore.exists

\* C11 as stated: when the rename of the .new file to the canonical path
\* fails, the prior canonical file is still at the canonical path with its
\* previous content.
C11_CanonicalStillInPlace ==
    FinalRenameFailed => canonical = canonBefore

\* C11 amended: when that rename fails the prior canonical content is not
\* lost: it is at the backup path, the canonical path being absent, when
\* the first rename had moved it, and still at the canonical path when the
\* first rename had failed; the .new file is still in place.
C11_PriorContentKept ==
    FinalRenameFailed =>
        /\ IF saved.at = "rotated"
           THEN ~canonical.exists /\ backup = canonBefore
           ELSE canonical = canonBefore
        /\ temp.exists

\* The second rename failed after the first had moved the canonical file.
C11_Witness ==
    /\ FinalRenameFailed
    /\ saved.at = "rotated"
    /\ last = "rename_new_fail"

\* C12: toFlash never returns normally when a write or a rename failed,
\* except for the first rename failing because no canonical file exists.
C12_SaveErrorsPropagate ==
    saved.st = "returned" => ~(saved.at = "kept" /\ canonBefore.exists)

\* C13: through load attempts that did not validate an envelope, a store
\* that is as constructed keeps every field at its default.
C13_DefaultsUntilLoaded ==
    (last = "load" /\ before = Defaults /\ loaded.err # "none")
        => SameFields(store, Defaults)

\* The parts of an envelope in their order: magic, reserved byte, version,
\* frequency, the nine fields each in its prefixed encoding, footer.
Layout(s) ==
    <<146, 0>> \o <<0>> \o <<2>> \o to_bytes4(s.freq)
        \o _savable_str(s.name)
        \o _savable_bytearray(s.pwmMap)
        \o _savable_bytearray(s.tachMap)
        \o _savable_bytearray(s.pwmDutyCycles)
        \o _savable_str_list(s.pwmNames)
        \o _savable_bytearray(s.inaSettings)
        \o _savable_array(s.i2cSettings)
        \o _savable_bytearray(s.adsSettings)
        \o <<0, 0, 66>>

\* C14: the file a save leaves is exactly the parts of the envelope in
\* their fixed order and nothing else.
C14_EnvelopeLayout ==
    (saved.st = "returned" /\ damage = NoDamage)
        => canonical.exists /\ canonical.data = Layout(orig)

\* A saved store whose pin map and tach map differ.
C14_Witness ==
    /\ saved.st = "returned"
    /\ damage = NoDamage
    /\ last = "rename_new"
    /\ orig.pwmMap # orig.tachMap
    /\ orig.pwmMap # Defaults.pwmMap

\* C15: the envelope of the reference profile is
\* 4 + 4 + (1+8) + (1+6) + (1+6) + (1+6) + (1 + sum of (1+len) over the six
\* names) + (1+1) + (2+1+16) + (1+1) + 3 = 100 bytes long.
C15_DefaultEnvelopeLength ==
    (saved.st = "returned" /\ SameFields(orig, Defaults)) =>
        /\ Len(canonical.data)
              = 4 + 4 + (1 + 8) + (1 + 6) + (1 + 6) + (1 + 6)
                + (1 + (1 + 5) + (1 + 5) + (1 + 5) + (1 + 5) + (1 + 4) + (1 + 5))
                + (1 + 1) + (2 + 1 + 16) + (1 + 1) + 3
        /\ Len(canonical.data) = 100

\* The reference profile has been saved.
C15_Witness ==
    /\ saved.st = "returned"
    /\ SameFields(orig, Defaults)
    /\ last = "rename_new"
    /\ canonical.exists

\* C16: every bus-settings element from 2^31 to 2^32 - 1 comes back from a
\* save and a load as the same value of an unsigned array.
C16_UnsignedRoundTrip ==
    (CleanLoad /\ loaded.err = "none") =>
        \A i \in 1..Len(orig.i2cSettings.items) :
            orig.i2cSettings.items[i][1] >= 32768 =>
                /\ store.i2cSettings.typecode = TypeL
                /\ i <= Len(store.i2cSettings.items)
                /\ store.i2cSettings.items[i] = orig.i2cSettings.items[i]

\* A restarted device loaded bus settings that hold 2^32 - 1.
C16_Witness ==
    /\ CleanLoad
    /\ loaded.err = "none"
    /\ before = Defaults
    /\ \E i \in 1..Len(orig.i2cSettings.items) :
          orig.i2cSettings.items[i] = U32(65535, 65535)

\* C17: a save cut between its two renames leaves the canonical path
\* absent and the backup holding the pre-save canonical content; a load
\* that follows reads the canonical path only and leaves the store as it
\* was.
C17_CutBetweenRenames ==
    (saved.st = "interrupted" /\ saved.at = "rotated") =>
        /\ ~canonical.exists
        /\ backup = canonBefore
        /\ backup.exists
        /\ last = "load" =>
              /\ loaded.err = "OSError"
              /\ ~loaded.raised
              /\ store = before

\* A load after the cut, with a backup on the medium.
C17_Witness ==
    /\ saved.st = "interrupted"
    /\ saved.at = "rotated"
    /\ last = "load"
    /\ loaded.fault = NoFault
    /\ IsEnvelope(backup)

\* C18: when a save over an existing canonical file returns, the backup
\* holds the bytes the canonical file held before the save, the canonical
\* file holds the new envelope and the .new path is gone.
C18_RotationResult ==
    (saved.st = "returned" /\ canonBefore.exists) =>
        /\ backup = canonBefore
        /\ canonical = File(Envelope(orig))
        /\ ~temp.exists

\* C19: a load after a completed save, whatever was assigned in between,
\* restores every field to its value at the save.
C19_LoadRestoresSaved ==
    (last = "load" /\ saved.st = "returned" /\ loaded.fault = NoFault)
        => loaded.err = "none" /\ SameFields(store, orig)

\* C20: with no canonical file, load returns without raising and changes
\* nothing in the store.
C20_AbsentFileLoad ==
    (last = "load" /\ ~canonical.exists)
        => loaded.err = "OSError" /\ ~loaded.raised /\ store = before

\* A first-run load into a store a caller had already assigned to.
C20_Witness ==
    /\ last = "load"
    /\ ~canonical.exists
    /\ saved.st = "never"
    /\ loaded.fault = NoFault
    /\ ~SameFields(store, Defaults)

\* The canonical file was cut inside the bytes of the name: the length
\* byte of the name (offset 8) is there, its declared bytes are not all.
CutInsideName ==
    /\ DamagedLoad("truncate")
    /\ RoundTrips(orig)
    /\ damage.at >= 9
    /\ damage.at < 9 + Len(encode(orig.name))

\* C21: a length-prefixed field whose declared length exceeds the bytes
\* left makes the decode fail at that field: neither that field nor a
\* later one is assigned, no shorter value is taken.
C21_TruncatedFieldAborts ==
    CutInsideName =>
        /\ loaded.raised
        /\ \A f \in Fields \ {"freq"} : store[f] = before[f]

\* The offset of the element-type tag in the envelope of a store.
TagOffset(s) == Len(Concat(SubSeq(Chunks(s), 1, 9))) + 2

\* C22: an element-type tag other than the 32-bit unsigned one makes the
\* decode fail; no array is produced for it.
C22_OtherTagRejected ==
    (/\ DamagedLoad("flip")
     /\ RoundTrips(orig)
     /\ damage.at = TagOffset(orig))
        => loaded.raised /\ store.i2cSettings = before.i2cSettings

\* The offset of the length byte of element i of the string list.
ElementOffset(s, i) ==
    Len(Concat(SubSeq(Chunks(s), 1, 7))) + 1
        + Len(Concat([j \in 1..(i - 1) |-> <<0>> \o encode(s.pwmNames[j])]))

\* C23: the length byte written before the name and before every element
\* of the string list is the number of UTF-8 bytes that follow it.
C23_PrefixCountsBytes ==
    (saved.st = "returned" /\ damage = NoDamage) =>
        /\ canonical.data[9] = Len(encode(orig.name))
        /\ \A i \in 1..Len(orig.pwmNames) :
              canonical.data[ElementOffset(orig, i) + 1]
                  = Len(encode(orig.pwmNames[i]))

\* The sensor addresses are one byte each and there are four bus settings.
Shape(s) ==
    /\ Len(s.inaSettings) = 1
    /\ Len(s.adsSettings) = 1
    /\ Len(s.i2cSettings.items) = 4

\* C24: a load of an envelope the decode accepts leaves a store of that
\* shape in that shape.
C24_ShapeKept ==
    (last = "load" /\ loaded.err = "none" /\ Shape(before) /\ RoundTrips(orig))
        => Shape(store)

\* C25: after a save was cut by a power loss at any step and the device
\* restarted, the next save that completes leaves the canonical file equal
\* to the envelope of the store it saved and no .new file.
C25_SaveAfterInterruption ==
    (saved.st = "returned" /\ prev = "interrupted") =>
        /\ canonical = File(Envelope(orig))
        /\ ~temp.exists

\* The save completed after one that was cut between its two renames: it
\* found no canonical file, and a backup.
C25_Witness ==
    /\ saved.st = "returned"
    /\ prev = "interrupted"
    /\ ~canonBefore.exists
    /\ backupBefore.exists
    /\ last = "rename_new"

C27_NoWriteWhenSelected ==
    (ads.call.chan \in 0..3 /\ Mux(ads.call.was) = (4 + ads.call.chan) * 16)
        => ~ads.call.wrote

\* C28: after off() the blinking is cancelled and the LED pin is low until
\* the next on() or blink().
C28_OffTurnsLedOff ==
    picoled.call = "off" => picoled.value = 0 /\ ~picoled.timer.active

===========================================================================
